---- MODULE Spec2Model ----
(***************************************************************************)
(* centry_logging: the buffered log handlers (Loki and EventNode), their   *)
(* flush() and the threads that call it.                                   *)
(*                                                                         *)
(* One buffered handler is shared by the application threads (which log    *)
(* through Handler.handle, call log.flush() or close the handler) and by   *)
(* its PeriodicFlush daemon thread.  The handler lock is the re-entrant    *)
(* lock of logging.Handler.                                                *)
(*                                                                         *)
(* Granularity.  A step is a stretch of code that other threads cannot     *)
(* observe apart: what a thread does to the buffer between taking and      *)
(* giving back the handler lock is split only inside the drain loop of     *)
(* flush, one step per record.  The unsynchronised write                   *)
(* self.last_flush = time.time() is one step of its own, so it races with  *)
(* the read of last_flush in shouldFlush.  A call of emit_batch is two     *)
(* steps, its start and its end.  The clock advances by whole flush        *)
(* intervals: only `time.time() - last_flush >= interval` reads it.        *)
(* The two handler classes have the same shouldFlush and flush; their      *)
(* batches differ in layout only, a batch here is the list of its records. *)
(* EventNodeBufferedLogHandler.close also stops its event node first; the  *)
(* handler with that close is SpecEventNode.                               *)
(*                                                                         *)
(* Beside the handler, more parts of the package, each with a              *)
(* specification of its own over its own variables (the others stay as     *)
(* constructed):                                                           *)
(*   SpecEmit     the two emitters, CarrierLokiLogEmitter (labels, the     *)
(*                retry loop of post_data) and EventNodeLogEmitter;        *)
(*   SpecCoord    log.init and log.update_secrets on the module `state`    *)
(*                and the root logger, serialised by state.lock;           *)
(*   SpecSecrets  SecretFormatter.update_secrets with each kind of source; *)
(*   SpecFlusher  PeriodicFlush.run over a list of handlers;               *)
(*   SpecFormat   SecretFormatter.format with the word-boundary replacer;  *)
(*   SpecFilter   Base64SanitizationFilter.filter.                         *)
(* SpecStale is the handler with its logging threads and its flusher       *)
(* under fair scheduling, SpecEventNode the handler with the close of      *)
(* EventNodeBufferedLogHandler.                                            *)
(* Objects (formatters, handlers) are numbered in order of construction,   *)
(* and a reference to one is its number: two holders of the same number    *)
(* hold the same object.                                                   *)
(***************************************************************************)
EXTENDS Integers, Sequences, FiniteSets, TLC

\* ---------------------------------------------------------------- bounds
MaxRecords == 2        \* records logged in one run, over all threads
MaxTicks == 1          \* flush intervals that elapse in one run
MaxCapacity == 2       \* largest buffer_capacity tried
MaxRetries == 3        \* largest retry budget tried
MaxCalls == 2          \* emitter calls in one run
MaxBatch == 2          \* records in one pub/sub batch
MaxCoordCalls == 3     \* calls of init and update_secrets in one run
MaxFormatters == 2     \* formatters constructed in one run
MaxHandlers == 1       \* handlers constructed in one run
MaxUpdates == 2        \* calls of SecretFormatter.update_secrets in one run
MaxFlushHandlers == 3  \* handlers in the list of one PeriodicFlush
MaxFlusherTicks == 2   \* sleeps of one PeriodicFlush that end in one run
MaxText == 3           \* characters of a rendered text
MaxSecretLen == 3      \* characters of a secret
MaxSecrets == 2        \* secrets of one formatter
MaxBody == 21          \* base64 characters of a data URI's payload
MaxPad == 1            \* "=" characters that end a payload

\* ------------------------------------------------------------- constants
StartTime == 1700000000     \* time.time() when the handler is constructed
DefaultFlushInterval == 10  \* settings.get("buffer_flush_interval", 10)
ScenarioInterval == 100 * DefaultFlushInterval   \* an interval no run outlasts
DefaultRetries == 3         \* CarrierLokiLogEmitter(..., retries=3, ...)

AppThreads == {"t1", "t2"}   \* threads that log records
MainThread == "t1"           \* the one that also calls log.flush() and close()
Flusher == "pf"
Threads == AppThreads \cup {Flusher}
None == "none"
Running == -1
Debug == 10                 \* logging.DEBUG
DefaultMaxBase64Chars == 20 \* max_base64_chars=20
MinBase64Run == 20          \* [A-Za-z0-9+/]{20,}
NoRecord == [th |-> None, n |-> 0]

VARIABLES
    capacity,      \* BufferingHandler.capacity
    interval,      \* settings["buffer_flush_interval"]
    flush_locked,  \* self.flush_locked
    buffer,        \* self.buffer
    last_flush,    \* self.last_flush
    lock_owner,    \* Handler.lock (RLock): owning thread
    lock_depth,    \* Handler.lock (RLock): recursion level
    now,           \* time.time()
    closed,        \* BufferingHandler.close() has completed
    pc,            \* per thread: position in flush ("idle" outside it)
    ret,           \* per thread: who called flush ("handle", "flush", "close")
    log_records,   \* per thread: flush's local log_records
    made,          \* per thread: number of records it has logged
    snap,          \* per thread: buffer contents when flush took the lock
    faulty,        \* per thread: the record whose formatting raised in this flush
    tx_failed,     \* per thread: emit_batch raised in this flush
    fstart,        \* per thread: time at which this flush began to drain
    enq_log,       \* every record appended to the buffer, in append order
    emitted,       \* every batch passed to emitter.emit_batch, in call order
    drained        \* every batch a drain loop built for sending, in drain order

cfgvars == <<capacity, interval, flush_locked>>
hvars == <<buffer, last_flush, lock_owner, lock_depth, now, closed>>
tvars == <<pc, ret, log_records, made, snap, faulty, tx_failed, fstart>>
gvars == <<enq_log, emitted, drained>>
bvars == <<cfgvars, hvars, tvars, gvars>>

\* The emitters: one CarrierLokiLogEmitter and one EventNodeLogEmitter, used
\* by one caller, one call at a time.
VARIABLES
    retries,              \* CarrierLokiLogEmitter.retries
    connection,           \* CarrierLokiLogEmitter._connection
    loki_default_labels,  \* CarrierLokiLogEmitter.default_labels
    loki_ctor_labels,     \* the default_labels given to its constructor
    h_pc,                 \* position in emit_line / emit_batch / post_data
    h_kind,               \* the method called: "emit_line" or "emit_batch"
    h_attempt,            \* post_data: turns of `for _ in range(retries)` done
    h_posts,              \* post_data: calls of connection.post in this call
    h_sink,               \* how the sink answers the POSTs of this call
    h_result,             \* how the call ended: "returned" or "raised"
    h_given,              \* the additional_labels of this call
    h_posted,             \* the "stream" labels of the last POST of this call
    h_connect,            \* what connect() did in the last turn of this
                          \* call: "new" Session or the held one "reused"
    en_default_labels,    \* EventNodeLogEmitter.default_labels
    en_ctor_labels,       \* the default_labels given to its constructor
    e_pc,                 \* position in emit / emit_batch
    e_kind,               \* the method called: "emit" or "emit_batch"
    e_input,              \* the records given to this call
    e_data,               \* data["records"]: line and time of each entry; the
                          \* "labels" of each is the default_labels object
    e_result,             \* how the call ended: "returned" or "raised"
    client_calls,         \* the calls of event_node.emit made by this call
    em_calls              \* emitter calls started in this run

lokivars == <<retries, connection, loki_default_labels, loki_ctor_labels,
              h_pc, h_kind, h_attempt, h_posts, h_sink, h_result, h_given,
              h_posted, h_connect>>
envars == <<en_default_labels, en_ctor_labels, e_pc, e_kind, e_input, e_data,
            e_result, client_calls>>
emvars == <<lokivars, envars, em_calls>>

\* The coordination state of log.py (module `state`), the root logger, and
\* the formatter and handler objects that init constructs.
VARIABLES
    state_lock,         \* state.lock: the thread inside `with state.lock`
    state_initialized,  \* state.initialized
    state_formatter,    \* state.formatter: a formatter object (0: None)
    state_filters,      \* state.filters
    state_handlers,     \* state.handlers: handler objects
    state_root_level,   \* state.root_level
    root_handlers,      \* logging.root.handlers: handler objects
    root_level,         \* logging.root.level
    formatter_objs,     \* formatter objects made so far: class and secrets
    handler_objs,       \* handler objects made so far: class and formatter
    handlers_closed,    \* handler objects whose close() was called
    c_pc,               \* position of the call in progress ("idle": none)
    c_op,               \* the call in progress: "init" or "update_secrets"
    c_args,             \* init: its level, config and force
    c_old,              \* init: list(logging.root.handlers) still to remove
    c_before,           \* the state when the call began
    c_result,           \* how the call ended: "returned" or "raised"
    registered,         \* secrets that update_secrets gave to a formatter
    coord_calls         \* calls of init and update_secrets in this run

statevars == <<state_lock, state_initialized, state_formatter, state_filters,
               state_handlers, state_root_level>>
rootvars == <<root_handlers, root_level>>
objvars == <<formatter_objs, handler_objs, handlers_closed>>
callvars == <<c_pc, c_op, c_args, c_old, c_before, c_result, registered,
              coord_calls>>
coordvars == <<statevars, rootvars, objvars, callvars>>

\* The EventNode client of EventNodeBufferedLogHandler
VARIABLES
    event_node_stop     \* Running while the event node runs; after
                        \* event_node.stop(), the number of records that
                        \* had been enqueued when it was called

eventnodevars == <<event_node_stop>>

\* A PeriodicFlush thread over a list of handlers
VARIABLES
    handlers,           \* self.handlers: handlers 1..handlers, in list order
    run_pc,             \* run: "sleep" in time.sleep, "loop" in the for loop
    run_index,          \* run: the position of `handler` in self.handlers
    run_ticks,          \* run: sleeps that have ended
    flush_calls         \* history of the handler.flush() calls of run

flushervars == <<handlers, run_pc, run_index, run_ticks, flush_calls>>

\* SecretFormatter.format on one rendered text
VARIABLES
    fmt_secrets,        \* self.secrets, as the list that iterating the set
                        \* gives
    fmt_text,           \* formatted = super().format(record)
    fmt_out,            \* what format returned
    fmt_done            \* format has returned

formatvars == <<fmt_secrets, fmt_text, fmt_out, fmt_done>>

\* Base64SanitizationFilter.filter on one record
VARIABLES
    max_base64_chars,   \* self.max_base64_chars
    levelno,            \* record.levelno
    msg,                \* record.msg before the call: the payload of its
                        \* data URI, and whether the marker follows it
    msg_out,            \* record.msg after the call
    filter_done         \* filter has returned (True, always)

filtervars == <<max_base64_chars, levelno, msg, msg_out, filter_done>>

auxvars == <<eventnodevars, flushervars, formatvars, filtervars>>
notflushervars == <<bvars, emvars, coordvars, eventnodevars, formatvars,
                    filtervars>>
notformatvars == <<bvars, emvars, coordvars, eventnodevars, flushervars,
                   filtervars>>
notfiltervars == <<bvars, emvars, coordvars, eventnodevars, flushervars,
                   formatvars>>

xvars == <<emvars, coordvars, auxvars>>
notemvars == <<bvars, coordvars, auxvars>>
notcoordvars == <<bvars, emvars, auxvars>>
vars == <<bvars, xvars>>

\* ---------------------------------------------------------------- helpers
Range(s) == {s[i] : i \in 1..Len(s)}

TotalMade == made["t1"] + made["t2"] + made[Flusher]

\* The re-entrant handler lock: free, or already owned by the caller.
\* (CanAcquireAlways: flush without self.acquire().)
CanAcquireAlways(t) == TRUE
CanAcquire(t) == lock_owner = None \/ lock_owner = t

\* shouldFlush(record) of both buffered handlers
\* (shouldFlushStrict: `>` written for `>=`.)
shouldFlushStrict(len, lf, tm) ==
    (len > capacity) \/ ((tm - lf) >= interval)
shouldFlush(len, lf, tm) ==
    (len >= capacity) \/ ((tm - lf) >= interval)

\* BufferingHandler.emit: self.buffer.append(record)
\* (BufferPrepend: insert(0, record) written for append.)
BufferPrepend(buf, r) == <<r>> \o buf
BufferAppend(buf, r) == Append(buf, r)

\* What the except clauses of flush leave in the buffer when emit_batch
\* raised: they only print, the drained batch is not put back.
\* (BufferRequeued: the batch is put back for a later flush.)
BufferRequeued(buf, batch) == batch \o buf
BufferAfterFailedSend(buf, batch) == buf

\* finally: self.last_flush = time.time()
\* (LastFlushOnSuccess: the stamp is skipped when emit_batch raised.)
LastFlushOnSuccess(old, tm, failed) == IF failed THEN old ELSE tm
LastFlushStamp(old, tm, failed) == tm

\* Is emit_batch called inside the try block, before self.release()?
\* (SendNeverUnderLock: the flush_locked setting is ignored.)
SendNeverUnderLock(locked) == FALSE
SendUnderLock(locked) == locked


\* ------------------------------------------------------- emitters: values
\* A label dict is a function on LabelKeys; Absent marks a key it lacks.
Absent == "-"
LabelKeys == {"app", "level", "logger"}
NoLabels == [k \in LabelKeys |-> Absent]

\* default_labels given to a constructor ({} when none is given)
CtorLabelSets == {NoLabels, [NoLabels EXCEPT !["app"] = "svc"]}

\* additional_labels of a call, or the "labels" of a batch item.  NoLabels
\* stands for None and for {}: both leave the dict they update as it is.
AdditionalLabelSets ==
    { NoLabels,
      [NoLabels EXCEPT !["level"] = "INFO", !["logger"] = "a"],
      [NoLabels EXCEPT !["level"] = "ERROR", !["logger"] = "b"],
      [NoLabels EXCEPT !["app"] = "job"] }

\* dict.update: d.update(a)
DictUpdate(d, a) ==
    [k \in LabelKeys |-> IF a[k] /= Absent THEN a[k] ELSE d[k]]

\* How the sink treats the POSTs of one call: it fails the first `fails`
\* of them (`how`: an HTTP error status or a network error) and accepts
\* every later one.
Sinks == [fails : 0..(MaxRetries + 1), how : {"500", "network_error"}]
NoSink == [fails |-> 0, how |-> "500"]
SinkAnswer(sink, i) == IF i <= sink.fails THEN sink.how ELSE "200"

\* post_data: response.raise_for_status(); return response -- reached when
\* connection.post did not raise and the status is no error status
\* (ReturnsResponseNever: the return statement is missing.)
ReturnsResponseNever(resp) == FALSE
ReturnsResponse(resp) == resp = "200"

\* post_data: for _ in range(self.retries) has a turn left after i turns
\* (RangeHasNextInclusive: range(self.retries + 1).)
RangeHasNextInclusive(i, r) == i <= r
RangeHasNext(i, r) == i < r

\* connect(): the held connection, or a new requests.Session() that is then
\* held
Connect(conn) == IF conn = None THEN "session" ELSE conn
ConnectMakes(conn) == IF conn = None THEN "new" ELSE "reused"

\* disconnect(): try: self._connection.close() except: pass; then
\* self._connection = None, whether or not close() raised
DisconnectInsideTry(conn, close_raises) == IF close_raises THEN conn ELSE None
Disconnect(conn, close_raises) == None

\* The records a pub/sub call can be given: record i has line i and was
\* created at StartTime + i.
BatchItem(i, labels) == [line |-> i, time |-> StartTime + i, labels |-> labels]
Batches ==
    UNION { { [i \in 1..n |-> BatchItem(i, f[i])] :
                f \in [1..n -> AdditionalLabelSets] } : n \in 0..MaxBatch }

\* emit_batch: data["records"].append({...})
\* (RecordsPrepend: insert(0, {...}) written for append.)
RecordsPrepend(recs, r) == <<r>> \o recs
RecordsAppend(recs, r) == Append(recs, r)

\* What event_node.emit is given: every entry of data["records"] refers to
\* the one default_labels dict, read when the client serialises the payload.
Payload(recs, labels_object) ==
    [i \in 1..Len(recs) |->
        [line |-> recs[i].line, time |-> recs[i].time, labels |-> labels_object]]

\* Both emitters as constructed, no call made yet.
EmitterInit(r, hl, el) ==
    /\ retries = r
    /\ connection = None
    /\ loki_default_labels = hl
    /\ loki_ctor_labels = hl
    /\ h_pc = "idle"
    /\ h_kind = None
    /\ h_attempt = 0
    /\ h_posts = 0
    /\ h_sink = NoSink
    /\ h_result = None
    /\ h_given = NoLabels
    /\ h_posted = NoLabels
    /\ h_connect = None
    /\ en_default_labels = el
    /\ en_ctor_labels = el
    /\ e_pc = "idle"
    /\ e_kind = None
    /\ e_input = <<>>
    /\ e_data = <<>>
    /\ e_result = None
    /\ client_calls = <<>>
    /\ em_calls = 0

EmitQuiet == EmitterInit(DefaultRetries, NoLabels, NoLabels)

\* ------------------------------------------- secret formatter: functions
\* constants.DEFAULT_SECRETS_REPLACER
DefaultReplacer == "***"

\* SecretFormatter.__init__: self.restricted_stop_words = {'', self.replacer}
RestrictedStopWords(replacer) == {"", replacer}

\* SecretFormatter.__censor_stop_words
\* (CensorEmptyOnly: only the empty string is removed.)
CensorEmptyOnly(secrets, replacer) == secrets \ {""}
CensorStopWords(secrets, replacer) == secrets \ RestrictedStopWords(replacer)

\* isinstance(formatter, self.__class__), self being a SecretFormatter
IsSecretFormatter(cls) == cls = "SecretFormatter"

\* update_secrets(secrets) with a formatter, or the formatter of a handler,
\* as its source: the source's secrets are merged if it is of the same
\* class, then the stop words are removed.
SecretsFromFormatter(own, replacer, src_cls, src_secrets) ==
    CensorStopWords(IF IsSecretFormatter(src_cls) THEN own \cup src_secrets
                                                  ELSE own,
                    replacer)

\* A Python value in a collection of secrets: its type and what str() makes
\* of it.
PyStr(text) == [type |-> "str", repr |-> text]
Str(v) == v.repr

\* update_secrets(secrets) with a list / iterable as its source:
\* self.secrets.update(set(map(str, secrets))), then the stop words go.
SecretsFromCollection(own, replacer, values) ==
    CensorStopWords(own \cup {Str(v) : v \in values}, replacer)

\* ---------------------------------------------- coordination state: values
CoordThreads == AppThreads
Levels == {"DEBUG", "INFO"}

\* A config descriptor.  is_dict is false for config=None (or a non-dict);
\* level is config.get("level"); formatter is the descriptor's type: none
\* ("absent"), the secret formatter, another formatter class, or a type
\* that cannot be resolved or constructed ("bad"); filters and handlers
\* list descriptors that can ("ok") or cannot ("bad") be resolved and
\* constructed; has_handlers is `"handlers" in config`.
NoConfig ==
    [is_dict |-> FALSE, level |-> Absent, formatter |-> "absent",
     filters |-> <<>>, has_handlers |-> FALSE, handlers |-> <<>>]
EmptyConfig == [NoConfig EXCEPT !.is_dict = TRUE]
Configs ==
    { NoConfig,
      EmptyConfig,
      [EmptyConfig EXCEPT !.level = "ERROR", !.formatter = "secret",
                          !.filters = <<"ok">>,
                          !.has_handlers = TRUE, !.handlers = <<"ok">>],
      [EmptyConfig EXCEPT !.formatter = "other", !.has_handlers = TRUE],
      [EmptyConfig EXCEPT !.level = "ERROR", !.formatter = "bad"],
      [EmptyConfig EXCEPT !.filters = <<"ok", "bad">>],
      [EmptyConfig EXCEPT !.has_handlers = TRUE, !.handlers = <<"ok", "bad">>] }

NoArgs == [level |-> None, config |-> NoConfig, force |-> FALSE]

\* The collections of values given to log.update_secrets
SecretCollections == {{PyStr("s1")}, {PyStr("s2"), PyStr("")}}

\* The class of the formatter that a formatter descriptor makes
FormatterClass(type) ==
    IF type = "other" THEN "Formatter" ELSE "SecretFormatter"

\* What a call can be compared against when it has ended
Snapshot ==
    [initialized |-> state_initialized, formatter |-> state_formatter,
     filters |-> state_filters, handlers |-> state_handlers,
     root_level |-> state_root_level, root |-> root_handlers,
     closed |-> handlers_closed, nformatters |-> Len(formatter_objs),
     nhandlers |-> Len(handler_objs)]
NoSnapshot ==
    [initialized |-> FALSE, formatter |-> 0, filters |-> <<>>,
     handlers |-> <<>>, root_level |-> None, root |-> <<>>, closed |-> {},
     nformatters |-> 0, nhandlers |-> 0]

\* The module `state` as imported and the root logger of a fresh process,
\* no call made yet.
CoordQuiet ==
    /\ state_lock = None
    /\ state_initialized = FALSE
    /\ state_formatter = 0
    /\ state_filters = <<>>
    /\ state_handlers = <<>>
    /\ state_root_level = "INFO"
    /\ root_handlers = <<>>
    /\ root_level = "WARNING"
    /\ formatter_objs = <<>>
    /\ handler_objs = <<>>
    /\ handlers_closed = {}
    /\ c_pc = "idle"
    /\ c_op = None
    /\ c_args = NoArgs
    /\ c_old = <<>>
    /\ c_before = NoSnapshot
    /\ c_result = None
    /\ registered = {}
    /\ coord_calls = 0

\* ------------------------------------------------------------------- Init
\* EventNodeBufferedLogHandler.__init__: the event node is made and started.
EventNodeQuiet == event_node_stop = Running

\* PeriodicFlush(handler): self.handlers = [handler]; the thread is in its
\* first sleep.
FlusherInit(n) ==
    /\ handlers = n
    /\ run_pc = "sleep"
    /\ run_index = 0
    /\ run_ticks = 0
    /\ flush_calls = <<>>

FlusherQuiet == FlusherInit(1)

\* A formatter without secrets that has formatted nothing
FormatInit(order, text) ==
    /\ fmt_secrets = order
    /\ fmt_text = text
    /\ fmt_out = <<>>
    /\ fmt_done = FALSE

FormatQuiet == FormatInit(<<>>, <<>>)

\* A message "... data:image/<subtype>;base64,<payload> ...": its payload is
\* `body` base64 characters, here the numbers 1..body, and `pad` "="
\* characters after them, here zeros.
Payload64(body, pad) == [i \in 1..(body + pad) |-> IF i <= body THEN i ELSE 0]
Message(payload, marker) == [payload |-> payload, marker |-> marker]

\* Base64SanitizationFilter(max_base64_chars) and a record of the given
\* level and message
FilterInit(max_chars, level, message) ==
    /\ max_base64_chars = max_chars
    /\ levelno = level
    /\ msg = message
    /\ msg_out = message
    /\ filter_done = FALSE

FilterQuiet == FilterInit(DefaultMaxBase64Chars, Debug, Message(<<>>, FALSE))

AuxQuiet ==
    /\ EventNodeQuiet
    /\ FlusherQuiet
    /\ FormatQuiet
    /\ FilterQuiet

Init ==
    /\ capacity \in 1..MaxCapacity
    /\ interval = DefaultFlushInterval
    /\ flush_locked \in BOOLEAN
    /\ buffer = <<>>
    /\ last_flush = 0
    /\ lock_owner = None
    /\ lock_depth = 0
    /\ now = StartTime
    /\ closed = FALSE
    /\ pc = [t \in Threads |-> "idle"]
    /\ ret = [t \in Threads |-> None]
    /\ log_records = [t \in Threads |-> <<>>]
    /\ made = [t \in Threads |-> 0]
    /\ snap = [t \in Threads |-> <<>>]
    /\ faulty = [t \in Threads |-> NoRecord]
    /\ tx_failed = [t \in Threads |-> FALSE]
    /\ fstart = [t \in Threads |-> 0]
    /\ enq_log = <<>>
    /\ emitted = <<>>
    /\ drained = <<>>
    /\ EmitQuiet
    /\ CoordQuiet
    /\ AuxQuiet

\* ---------------------------------------------------------------- actions

\* The clock advances by one flush interval.
Tick ==
    /\ now < StartTime + MaxTicks * interval
    /\ now' = now + interval
    /\ UNCHANGED <<cfgvars, buffer, last_flush, lock_owner, lock_depth, closed,
                   tvars, gvars>>
    /\ UNCHANGED xvars

\* self.release(): one level of the RLock is given back
Release(t) ==
    /\ lock_depth' = lock_depth - 1
    /\ lock_owner' = IF lock_depth = 1 THEN None ELSE lock_owner

\* flush: the drain loop is over with `batch` in log_records.  In locked
\* mode a non-empty batch is handed to emit_batch inside the try block, the
\* lock still held; otherwise the finally clause releases the lock.
AfterLoop(t, batch, raised) ==
    /\ drained' = IF batch /= <<>> /\ ~(raised /\ SendUnderLock(flush_locked))
                    THEN Append(drained, batch) ELSE drained
    /\ IF SendUnderLock(flush_locked) /\ batch /= <<>> /\ ~raised
         THEN /\ pc' = [pc EXCEPT ![t] = "f_tx"]
              /\ emitted' = Append(emitted, batch)
              /\ UNCHANGED <<lock_owner, lock_depth>>
         ELSE /\ pc' = [pc EXCEPT ![t] = "f_stamp"]
              /\ Release(t)
              /\ UNCHANGED emitted

\* flush(): self.acquire(); try: log_records = []; while self.buffer: ...
\* Thread t, called from `who`, meets the loop condition on `buf`.  With an
\* empty buffer the lock is taken and released at once.
EnterFlush(t, who, buf) ==
    /\ ret' = [ret EXCEPT ![t] = who]
    /\ log_records' = [log_records EXCEPT ![t] = <<>>]
    /\ snap' = [snap EXCEPT ![t] = buf]
    /\ faulty' = [faulty EXCEPT ![t] = NoRecord]
    /\ tx_failed' = [tx_failed EXCEPT ![t] = FALSE]
    /\ UNCHANGED <<emitted, drained>>
    /\ IF buf /= <<>>
         THEN /\ pc' = [pc EXCEPT ![t] = "f_loop"]
              /\ fstart' = [fstart EXCEPT ![t] = now]
              /\ lock_owner' = t
              /\ lock_depth' = IF who = "handle" THEN 2 ELSE 1
         ELSE /\ pc' = [pc EXCEPT ![t] = "f_stamp"]
              /\ UNCHANGED <<fstart, lock_owner, lock_depth>>

\* An application thread logs a record.  Handler.handle: self.acquire();
\* self.emit(record); finally self.release().  BufferingHandler.emit:
\* self.buffer.append(record); if self.shouldFlush(record): self.flush()
\* (flush then re-acquires the RLock that handle holds).
Handle(t) ==
    /\ t \in AppThreads
    /\ pc[t] = "idle"
    /\ TotalMade < MaxRecords
    /\ CanAcquire(t)
    /\ made' = [made EXCEPT ![t] = @ + 1]
    /\ buffer' = BufferAppend(buffer, [th |-> t, n |-> made[t] + 1])
    /\ enq_log' = Append(enq_log, [th |-> t, n |-> made[t] + 1])
    /\ IF shouldFlush(Len(buffer'), last_flush, now)
         THEN EnterFlush(t, "handle", buffer')
         ELSE UNCHANGED <<lock_owner, lock_depth, pc, ret, log_records, faulty,
                          tx_failed, fstart, snap, emitted, drained>>
    /\ UNCHANGED <<cfgvars, last_flush, now, closed>>
    /\ UNCHANGED xvars

\* A flusher that flushes a full buffer only
PeriodicFlushWhenFull(t) ==
    /\ t = Flusher
    /\ pc[t] = "idle"
    /\ Len(buffer) >= capacity
    /\ CanAcquire(t)
    /\ EnterFlush(t, "flush", buffer)
    /\ UNCHANGED <<cfgvars, buffer, last_flush, now, closed, made, enq_log>>
    /\ UNCHANGED xvars

\* PeriodicFlush.run: after time.sleep(interval), handler.flush()
PeriodicFlushRun(t) ==
    /\ t = Flusher
    /\ pc[t] = "idle"
    /\ CanAcquire(t)
    /\ EnterFlush(t, "flush", buffer)
    /\ UNCHANGED <<cfgvars, buffer, last_flush, now, closed, made, enq_log>>
    /\ UNCHANGED xvars

\* log.flush(): handler.flush() for every handler of the root logger
GlobalFlush(t) ==
    /\ t = MainThread
    /\ pc[t] = "idle"
    /\ CanAcquire(t)
    /\ EnterFlush(t, "flush", buffer)
    /\ UNCHANGED <<cfgvars, buffer, last_flush, now, closed, made, enq_log>>
    /\ UNCHANGED xvars

\* BufferingHandler.close(): try: self.flush() finally: Handler.close(self)
Close(t) ==
    /\ t = MainThread
    /\ pc[t] = "idle"
    /\ ~closed
    /\ CanAcquire(t)
    /\ EnterFlush(t, "close", buffer)
    /\ UNCHANGED <<cfgvars, buffer, last_flush, now, closed, made, enq_log>>
    /\ UNCHANGED xvars

\* flush: one turn of `while self.buffer`: pop(0), format, append; when the
\* buffer is empty after it, the loop ends.
FlushPop(t) ==
    /\ pc[t] = "f_loop"
    /\ buffer /= <<>>
    /\ buffer' = Tail(buffer)
    /\ log_records' = [log_records EXCEPT ![t] = Append(@, Head(buffer))]
    /\ IF buffer' = <<>>
         THEN AfterLoop(t, log_records'[t], FALSE)
         ELSE UNCHANGED <<pc, emitted, drained, lock_owner, lock_depth>>
    /\ UNCHANGED <<cfgvars, last_flush, now, closed, ret, made, snap,
                   faulty, tx_failed, fstart, enq_log>>
    /\ UNCHANGED xvars

\* flush: a turn of the loop in which self.format(record) raises: the record
\* is already popped, the except clause prints, the finally clause follows.
\* In unlocked mode what was formatted before it is still sent afterwards.
FlushPopFormatRaises(t) ==
    /\ pc[t] = "f_loop"
    /\ buffer /= <<>>
    /\ buffer' = Tail(buffer)
    /\ faulty' = [faulty EXCEPT ![t] = Head(buffer)]
    /\ AfterLoop(t, log_records[t], TRUE)
    /\ UNCHANGED <<cfgvars, last_flush, now, closed, ret, log_records,
                   made, snap, tx_failed, fstart, enq_log>>
    /\ UNCHANGED xvars

\* emitter.emit_batch returns, or raises and the except clause prints; in
\* locked mode the finally clause then releases the lock.
FlushSendEnd(t) ==
    /\ pc[t] = "f_tx"
    /\ \E ok \in BOOLEAN :
         /\ tx_failed' = [tx_failed EXCEPT ![t] = ~ok]
         /\ buffer' = IF ok THEN buffer
                      ELSE BufferAfterFailedSend(buffer, log_records[t])
    /\ IF SendUnderLock(flush_locked)
         THEN /\ pc' = [pc EXCEPT ![t] = "f_stamp"]
              /\ Release(t)
         ELSE /\ pc' = [pc EXCEPT ![t] = "f_ret"]
              /\ UNCHANGED <<lock_owner, lock_depth>>
    /\ UNCHANGED <<cfgvars, last_flush, now, closed, ret, log_records,
                   made, snap, faulty, fstart, gvars>>
    /\ UNCHANGED xvars

\* flush: finally: self.last_flush = time.time(); then, in unlocked mode,
\* try: if log_records: self.emitter.emit_batch(log_records)
FlushStamp(t) ==
    /\ pc[t] = "f_stamp"
    /\ last_flush' = LastFlushStamp(last_flush, now, tx_failed[t])
    /\ IF (~SendUnderLock(flush_locked)) /\ log_records[t] /= <<>>
         THEN /\ pc' = [pc EXCEPT ![t] = "f_tx"]
              /\ emitted' = Append(emitted, log_records[t])
         ELSE /\ pc' = [pc EXCEPT ![t] = "f_ret"]
              /\ UNCHANGED emitted
    /\ UNCHANGED <<cfgvars, buffer, lock_owner, lock_depth, now, closed,
                   ret, log_records, made, snap, faulty, tx_failed, fstart,
                   enq_log, drained>>
    /\ UNCHANGED xvars

\* flush returns, and its caller finishes: Handler.handle releases the lock
\* it took around emit, BufferingHandler.close goes on to Handler.close,
\* PeriodicFlush.run and log.flush have nothing left to do.
FlushReturn(t) ==
    /\ pc[t] = "f_ret"
    /\ pc' = [pc EXCEPT ![t] = "idle"]
    /\ IF ret[t] = "handle" THEN Release(t)
                            ELSE UNCHANGED <<lock_owner, lock_depth>>
    /\ closed' = IF ret[t] = "close" THEN TRUE ELSE closed
    /\ ret' = [ret EXCEPT ![t] = None]
    /\ log_records' = [log_records EXCEPT ![t] = <<>>]
    /\ snap' = [snap EXCEPT ![t] = <<>>]
    /\ faulty' = [faulty EXCEPT ![t] = NoRecord]
    /\ tx_failed' = [tx_failed EXCEPT ![t] = FALSE]
    /\ fstart' = [fstart EXCEPT ![t] = 0]
    /\ UNCHANGED <<cfgvars, buffer, last_flush, now, made, gvars>>
    /\ UNCHANGED xvars

Next ==
    \/ Tick
    \/ \E t \in Threads : Handle(t)
    \/ \E t \in Threads : PeriodicFlushRun(t)
    \/ \E t \in Threads : GlobalFlush(t)
    \/ \E t \in Threads : Close(t)
    \/ \E t \in Threads : FlushPop(t)
    \/ \E t \in Threads : FlushPopFormatRaises(t)
    \/ \E t \in Threads : FlushSendEnd(t)
    \/ \E t \in Threads : FlushStamp(t)
    \/ \E t \in Threads : FlushReturn(t)

Spec == Init /\ [][Next]_vars

\* ------------------------------------------------ the capacity scenario
\* A fresh handler whose flush interval outlasts the run, used by logging
\* threads only: no periodic, global or closing flush, no clock tick of a
\* whole interval, no formatting failure.
InitScenario ==
    /\ capacity \in 1..MaxCapacity
    /\ interval = ScenarioInterval
    /\ flush_locked \in BOOLEAN
    /\ buffer = <<>>
    /\ last_flush = 0
    /\ lock_owner = None
    /\ lock_depth = 0
    /\ now = StartTime
    /\ closed = FALSE
    /\ pc = [t \in Threads |-> "idle"]
    /\ ret = [t \in Threads |-> None]
    /\ log_records = [t \in Threads |-> <<>>]
    /\ made = [t \in Threads |-> 0]
    /\ snap = [t \in Threads |-> <<>>]
    /\ faulty = [t \in Threads |-> NoRecord]
    /\ tx_failed = [t \in Threads |-> FALSE]
    /\ fstart = [t \in Threads |-> 0]
    /\ enq_log = <<>>
    /\ emitted = <<>>
    /\ drained = <<>>
    /\ EmitQuiet
    /\ CoordQuiet
    /\ AuxQuiet

NextScenario ==
    \/ \E t \in Threads : Handle(t)
    \/ \E t \in Threads : FlushPop(t)
    \/ \E t \in Threads : FlushSendEnd(t)
    \/ \E t \in Threads : FlushStamp(t)
    \/ \E t \in Threads : FlushReturn(t)

SpecScenario == InitScenario /\ [][NextScenario]_vars

\* ------------------------------------------------- the periodic flusher
\* A handler used by logging threads and flushed by its PeriodicFlush
\* thread only.  The flusher thread keeps being scheduled, and a thread
\* inside flush goes on: the drain loop turns, a transmission terminates
\* (with or without an exception), the stamp is written, flush returns.
FlushStep(t) ==
    \/ FlushPop(t)
    \/ FlushPopFormatRaises(t)
    \/ FlushSendEnd(t)
    \/ FlushStamp(t)
    \/ FlushReturn(t)

NextStale ==
    \/ Tick
    \/ \E t \in Threads : Handle(t)
    \/ \E t \in Threads : PeriodicFlushRun(t)
    \/ \E t \in Threads : FlushStep(t)

SpecStale ==
    /\ Init
    /\ [][NextStale]_vars
    /\ WF_vars(PeriodicFlushRun(Flusher))
    /\ \A t \in Threads : WF_vars(FlushStep(t))

\* ------------------------------------------- the EventNode handler's close
\* EventNodeBufferedLogHandler.close: self.event_node.stop() ...
EventNodeStop(t) ==
    /\ t = MainThread
    /\ pc[t] = "idle"
    /\ ~closed
    /\ event_node_stop = Running
    /\ event_node_stop' = Len(enq_log)
    /\ pc' = [pc EXCEPT ![t] = "closing"]
    /\ UNCHANGED <<cfgvars, buffer, last_flush, lock_owner, lock_depth, now,
                   closed, ret, log_records, made, snap, faulty, tx_failed,
                   fstart, gvars>>
    /\ UNCHANGED <<emvars, coordvars, flushervars, formatvars, filtervars>>

\* ... then super().close(): BufferingHandler.close, which flushes.
EventNodeCloseFlush(t) ==
    /\ pc[t] = "closing"
    /\ CanAcquire(t)
    /\ EnterFlush(t, "close", buffer)
    /\ UNCHANGED <<cfgvars, buffer, last_flush, now, closed, made, enq_log>>
    /\ UNCHANGED xvars

NextEventNode ==
    \/ Tick
    \/ \E t \in Threads : Handle(t)
    \/ \E t \in Threads : PeriodicFlushRun(t)
    \/ \E t \in Threads : GlobalFlush(t)
    \/ \E t \in Threads : EventNodeStop(t)
    \/ \E t \in Threads : EventNodeCloseFlush(t)
    \/ \E t \in Threads : FlushPop(t)
    \/ \E t \in Threads : FlushPopFormatRaises(t)
    \/ \E t \in Threads : FlushSendEnd(t)
    \/ \E t \in Threads : FlushStamp(t)
    \/ \E t \in Threads : FlushReturn(t)

SpecEventNode == Init /\ [][NextEventNode]_vars

\* ------------------------------------------------------------ the emitters

\* The buffered handler, idle: the state the other components run beside.
HandlerQuiet ==
    /\ capacity = 1
    /\ interval = DefaultFlushInterval
    /\ flush_locked = TRUE
    /\ buffer = <<>>
    /\ last_flush = 0
    /\ lock_owner = None
    /\ lock_depth = 0
    /\ now = StartTime
    /\ closed = FALSE
    /\ pc = [t \in Threads |-> "idle"]
    /\ ret = [t \in Threads |-> None]
    /\ log_records = [t \in Threads |-> <<>>]
    /\ made = [t \in Threads |-> 0]
    /\ snap = [t \in Threads |-> <<>>]
    /\ faulty = [t \in Threads |-> NoRecord]
    /\ tx_failed = [t \in Threads |-> FALSE]
    /\ fstart = [t \in Threads |-> 0]
    /\ enq_log = <<>>
    /\ emitted = <<>>
    /\ drained = <<>>

EmittersIdle == h_pc = "idle" /\ e_pc = "idle"

\* emit_line / emit_batch of the Loki emitter up to the call of post_data:
\* labels = self.default_labels; labels.update(additional_labels); data is
\* built around labels.
LokiEmitStart(kind, additional, sink) ==
    /\ EmittersIdle
    /\ em_calls < MaxCalls
    /\ em_calls' = em_calls + 1
    /\ loki_default_labels' = DictUpdate(loki_default_labels, additional)
    /\ h_pc' = "loop"
    /\ h_kind' = kind
    /\ h_attempt' = 0
    /\ h_posts' = 0
    /\ h_sink' = sink
    /\ h_result' = None
    /\ h_given' = additional
    /\ h_posted' = NoLabels
    /\ h_connect' = None
    /\ UNCHANGED <<retries, connection, loki_ctor_labels, envars, notemvars>>

\* CarrierLokiLogEmitter.emit_line(time, line, additional_labels)
LokiEmitLine ==
    \E additional \in AdditionalLabelSets, sink \in Sinks :
        LokiEmitStart("emit_line", additional, sink)

\* CarrierLokiLogEmitter.emit_batch(batch_data, additional_labels)
LokiEmitBatch ==
    \E additional \in AdditionalLabelSets, sink \in Sinks :
        LokiEmitStart("emit_batch", additional, sink)

\* post_data: one turn of the loop: connect(), json.dumps(data),
\* connection.post(...), raise_for_status(); return response, or else the
\* except clause: self.disconnect().
PostDataAttempt ==
    /\ h_pc = "loop"
    /\ RangeHasNext(h_attempt, retries)
    /\ h_posts' = h_posts + 1
    /\ h_posted' = loki_default_labels
    /\ h_connect' = ConnectMakes(connection)
    /\ IF ReturnsResponse(SinkAnswer(h_sink, h_posts + 1))
         THEN /\ connection' = Connect(connection)
              /\ h_result' = "returned"
              /\ h_pc' = "done"
         ELSE /\ \E close_raises \in BOOLEAN :
                   connection' = Disconnect(Connect(connection), close_raises)
              /\ h_result' = h_result
              /\ h_pc' = "sleep"
    /\ UNCHANGED <<retries, loki_default_labels, loki_ctor_labels, h_kind,
                   h_attempt, h_sink, h_given, envars, em_calls, notemvars>>

\* post_data: time.sleep(self.retry_delay) in the except clause is over, the
\* loop goes to its next turn.
PostDataRetryDelay ==
    /\ h_pc = "sleep"
    /\ h_attempt' = h_attempt + 1
    /\ h_pc' = "loop"
    /\ UNCHANGED <<retries, connection, loki_default_labels, loki_ctor_labels,
                   h_kind, h_posts, h_sink, h_result, h_given, h_posted,
                   h_connect,
                   envars, em_calls, notemvars>>

\* post_data: the loop is over: raise RuntimeError("Retries exceeded")
PostDataRetriesExceeded ==
    /\ h_pc = "loop"
    /\ ~RangeHasNext(h_attempt, retries)
    /\ h_result' = "raised"
    /\ h_pc' = "done"
    /\ UNCHANGED <<retries, connection, loki_default_labels, loki_ctor_labels,
                   h_kind, h_attempt, h_posts, h_sink, h_given, h_posted,
                   h_connect,
                   envars, em_calls, notemvars>>

\* The caller has the outcome of emit_line / emit_batch and goes on.
LokiEmitEnd ==
    /\ h_pc = "done"
    /\ h_pc' = "idle"
    /\ h_kind' = None
    /\ h_attempt' = 0
    /\ h_posts' = 0
    /\ h_sink' = NoSink
    /\ h_result' = None
    /\ h_given' = NoLabels
    /\ h_posted' = NoLabels
    /\ h_connect' = None
    /\ UNCHANGED <<retries, connection, loki_default_labels, loki_ctor_labels,
                   envars, em_calls, notemvars>>

\* EventNodeLogEmitter.emit(log_line, log_time, additional_labels) up to the
\* call of the client: log_labels = self.default_labels;
\* log_labels.update(additional_labels); data = {"records": [{...}]}
EventNodeEmit ==
    /\ EmittersIdle
    /\ em_calls < MaxCalls
    /\ \E additional \in AdditionalLabelSets :
         /\ e_input' = <<BatchItem(1, additional)>>
         /\ en_default_labels' = DictUpdate(en_default_labels, additional)
    /\ em_calls' = em_calls + 1
    /\ e_kind' = "emit"
    /\ e_data' = <<[line |-> 1, time |-> StartTime + 1]>>
    /\ e_pc' = "send"
    /\ e_result' = None
    /\ client_calls' = <<>>
    /\ UNCHANGED <<en_ctor_labels, lokivars, notemvars>>

\* EventNodeLogEmitter.emit_batch(batch_data): data = {"records": []}
EventNodeEmitBatch ==
    /\ EmittersIdle
    /\ em_calls < MaxCalls
    /\ \E batch \in Batches :
         /\ e_input' = batch
         /\ e_pc' = IF batch = <<>> THEN "send" ELSE "loop"
    /\ em_calls' = em_calls + 1
    /\ e_kind' = "emit_batch"
    /\ e_data' = <<>>
    /\ e_result' = None
    /\ client_calls' = <<>>
    /\ UNCHANGED <<en_default_labels, en_ctor_labels, lokivars, notemvars>>

\* emit_batch: one turn of `for item in batch_data`:
\* log_labels = self.default_labels; log_labels.update(item labels);
\* data["records"].append({"line", "time", "labels": log_labels})
EventNodeBatchItem ==
    /\ e_pc = "loop"
    /\ LET item == e_input[Len(e_data) + 1] IN
         /\ en_default_labels' = DictUpdate(en_default_labels, item.labels)
         /\ e_data' = RecordsAppend(e_data,
                                    [line |-> item.line, time |-> item.time])
    /\ e_pc' = IF Len(e_data') = Len(e_input) THEN "send" ELSE "loop"
    /\ UNCHANGED <<en_ctor_labels, e_kind, e_input, e_result, client_calls,
                   lokivars, em_calls, notemvars>>

\* self.event_node.emit("log_data", data): it returns, or it raises and the
\* exception leaves the emitter.
EventNodeClientEmit ==
    /\ e_pc = "send"
    /\ client_calls' = Append(client_calls,
                              [event |-> "log_data",
                               records |-> Payload(e_data, en_default_labels)])
    /\ \E ok \in BOOLEAN :
         e_result' = IF ok THEN "returned" ELSE "raised"
    /\ e_pc' = "done"
    /\ UNCHANGED <<en_default_labels, en_ctor_labels, e_kind, e_input, e_data,
                   lokivars, em_calls, notemvars>>

\* The caller has the outcome of emit / emit_batch and goes on.
EventNodeEmitEnd ==
    /\ e_pc = "done"
    /\ e_pc' = "idle"
    /\ e_kind' = None
    /\ e_input' = <<>>
    /\ e_data' = <<>>
    /\ e_result' = None
    /\ client_calls' = <<>>
    /\ UNCHANGED <<en_default_labels, en_ctor_labels, lokivars, em_calls,
                   notemvars>>

InitEmit ==
    /\ HandlerQuiet
    /\ CoordQuiet
    /\ AuxQuiet
    /\ \E r \in 0..MaxRetries, hl \in CtorLabelSets, el \in CtorLabelSets :
         EmitterInit(r, hl, el)

PostDataStep ==
    PostDataAttempt \/ PostDataRetryDelay \/ PostDataRetriesExceeded

NextEmit ==
    \/ LokiEmitLine
    \/ LokiEmitBatch
    \/ PostDataAttempt
    \/ PostDataRetryDelay
    \/ PostDataRetriesExceeded
    \/ LokiEmitEnd
    \/ EventNodeEmit
    \/ EventNodeEmitBatch
    \/ EventNodeBatchItem
    \/ EventNodeClientEmit
    \/ EventNodeEmitEnd

SpecEmit == InitEmit /\ [][NextEmit]_vars

\* post_data runs on the caller's thread, which is not suspended for good:
\* connection.post has a timeout and time.sleep ends.
SpecEmitFair == SpecEmit /\ WF_vars(PostDataStep)

\* ------------------------------------------------- the coordination state

\* Index of the first descriptor that cannot be resolved or constructed
\* (0: there is none), and the descriptors before it.
FirstBad(descs) ==
    IF \E i \in 1..Len(descs) : descs[i] = "bad"
      THEN CHOOSE i \in 1..Len(descs) :
               descs[i] = "bad" /\ \A j \in 1..(i - 1) : descs[j] /= "bad"
      ELSE 0
OkPrefix(descs) ==
    IF FirstBad(descs) = 0 THEN descs ELSE SubSeq(descs, 1, FirstBad(descs) - 1)

\* init: `if state.initialized and not force: return`
\* (ReturnsEarlyNever: the check is missing.)
ReturnsEarlyNever(initialized, force) == FALSE
ReturnsEarly(initialized, force) == initialized /\ ~force

\* init: where it goes once the new handlers are built: the loop over
\* list(logging.root.handlers), or, with nothing to remove, the loop over
\* state.handlers
\* (AfterHandlersBuiltSkipRemoval: the removal loop is missing.)
AfterHandlersBuiltSkipRemoval(old) == "install"
AfterHandlersBuilt(old) == IF old = <<>> THEN "install" ELSE "remove"

\* An exception leaves `with state.lock`: the lock is released and nothing
\* that init did so far is undone.
InitRaises ==
    /\ state_lock' = None
    /\ c_pc' = "done"
    /\ c_result' = "raised"

\* init(level, config=config, force=force): with state.lock: the early
\* return, or else state.root_level = level; state.filters.clear();
\* state.handlers.clear()
InitCall(t) ==
    /\ c_pc = "idle"
    /\ state_lock = None
    /\ coord_calls < MaxCoordCalls
    /\ \E level \in Levels, config \in Configs, force \in BOOLEAN :
         /\ c_args' = [level |-> level, config |-> config, force |-> force]
         /\ IF ReturnsEarly(state_initialized, force)
              THEN /\ c_pc' = "done"
                   /\ c_result' = "returned"
                   /\ UNCHANGED <<state_lock, state_root_level, state_filters,
                                  state_handlers>>
              ELSE /\ c_pc' = "formatter"
                   /\ c_result' = None
                   /\ state_lock' = t
                   /\ state_root_level' = level
                   /\ state_filters' = <<>>
                   /\ state_handlers' = <<>>
    /\ c_op' = "init"
    /\ c_before' = Snapshot
    /\ coord_calls' = coord_calls + 1
    /\ UNCHANGED <<state_initialized, state_formatter, rootvars, objvars,
                   c_old, registered, notcoordvars>>

\* init: state.root_level = config.get("level", state.root_level) and the
\* formatter: SecretFormatter() without a descriptor, formatter_cls(**opts)
\* with one, or the exception of a descriptor that cannot be resolved.
InitFormatter ==
    /\ c_pc = "formatter"
    /\ LET cfg == c_args.config IN
         /\ state_root_level' = IF cfg.is_dict /\ cfg.level /= Absent
                                  THEN cfg.level ELSE state_root_level
         /\ IF cfg.formatter = "bad"
              THEN /\ InitRaises
                   /\ UNCHANGED <<state_formatter, formatter_objs>>
              ELSE /\ formatter_objs' =
                        Append(formatter_objs,
                               [cls |-> FormatterClass(cfg.formatter),
                                secrets |-> {},
                                replacer |-> DefaultReplacer])
                   /\ state_formatter' = Len(formatter_objs')
                   /\ c_pc' = "filters"
                   /\ UNCHANGED <<state_lock, c_result>>
    /\ UNCHANGED <<state_initialized, state_filters, state_handlers, rootvars,
                   handler_objs, handlers_closed, c_op, c_args, c_old,
                   c_before, registered, coord_calls, notcoordvars>>

\* init: for filter_cfg in config.get("filters", []): resolve, construct,
\* state.filters.append(filter_obj)
InitFilters ==
    /\ c_pc = "filters"
    /\ LET descs == c_args.config.filters IN
         /\ state_filters' = OkPrefix(descs)
         /\ IF FirstBad(descs) /= 0
              THEN InitRaises
              ELSE /\ c_pc' = "handlers"
                   /\ UNCHANGED <<state_lock, c_result>>
    /\ UNCHANGED <<state_initialized, state_formatter, state_handlers,
                   state_root_level, rootvars, objvars, c_op, c_args, c_old,
                   c_before, registered, coord_calls, notcoordvars>>

\* init: the StreamHandler when there is no "handlers" key, the handlers of
\* the descriptors, each prepared (formatter, filters) and appended to
\* state.handlers, then the ThreadLocalHandler; a descriptor that cannot
\* be resolved or constructed raises.
InitHandlers ==
    /\ c_pc = "handlers"
    /\ LET cfg == c_args.config
           bad == FirstBad(cfg.handlers) /= 0
           built == (IF cfg.has_handlers THEN <<>> ELSE <<"StreamHandler">>)
                      \o [i \in 1..Len(OkPrefix(cfg.handlers)) |->
                             "ConfiguredHandler"]
                      \o (IF bad THEN <<>> ELSE <<"ThreadLocalHandler">>)
       IN
         /\ handler_objs' =
               handler_objs \o [i \in 1..Len(built) |->
                                  [cls |-> built[i],
                                   formatter |-> state_formatter]]
         /\ state_handlers' = [i \in 1..Len(built) |-> Len(handler_objs) + i]
         /\ IF bad
              THEN /\ InitRaises
                   /\ UNCHANGED c_old
              ELSE /\ c_old' = root_handlers
                   /\ c_pc' = AfterHandlersBuilt(root_handlers)
                   /\ UNCHANGED <<state_lock, c_result>>
    /\ UNCHANGED <<state_initialized, state_formatter, state_filters,
                   state_root_level, rootvars, formatter_objs, handlers_closed,
                   c_op, c_args, c_before, registered, coord_calls,
                   notcoordvars>>

\* init: one turn of `for handler in list(logging.root.handlers)`:
\* state.formatter.update_secrets(handler) when the new formatter is a
\* SecretFormatter, logging.root.removeHandler(handler), handler.close()
InitRemoveOld ==
    /\ c_pc = "remove"
    /\ LET handler == Head(c_old)
           new == formatter_objs[state_formatter]
           old == formatter_objs[handler_objs[handler].formatter]
       IN
         /\ formatter_objs' =
               IF IsSecretFormatter(new.cls)
                 THEN [formatter_objs EXCEPT ![state_formatter].secrets =
                          SecretsFromFormatter(new.secrets, new.replacer,
                                               old.cls, old.secrets)]
                 ELSE formatter_objs
         /\ root_handlers' = SelectSeq(root_handlers, LAMBDA h : h /= handler)
         /\ handlers_closed' = handlers_closed \cup {handler}
    /\ c_old' = Tail(c_old)
    /\ c_pc' = IF Tail(c_old) = <<>> THEN "install" ELSE "remove"
    /\ UNCHANGED <<statevars, root_level, handler_objs, c_op, c_args,
                   c_before, c_result, registered, coord_calls, notcoordvars>>

\* init: one turn of `for handler in state.handlers`:
\* logging.root.addHandler(handler)
InitInstall ==
    /\ c_pc = "install"
    /\ LET i == 1 + Cardinality({j \in 1..Len(state_handlers) :
                                    state_handlers[j] \in Range(root_handlers)})
       IN
         /\ root_handlers' = Append(root_handlers, state_handlers[i])
         /\ c_pc' = IF i = Len(state_handlers) THEN "finish" ELSE "install"
    /\ UNCHANGED <<statevars, root_level, objvars, c_op, c_args, c_old,
                   c_before, c_result, registered, coord_calls, notcoordvars>>

\* init: logging.root.setLevel(state.root_level); ...;
\* state.initialized = True; the lock is released on return.
InitFinish ==
    /\ c_pc = "finish"
    /\ root_level' = state_root_level
    /\ state_initialized' = TRUE
    /\ state_lock' = None
    /\ c_pc' = "done"
    /\ c_result' = "returned"
    /\ UNCHANGED <<state_formatter, state_filters, state_handlers,
                   state_root_level, root_handlers, objvars, c_op, c_args,
                   c_old, c_before, registered, coord_calls, notcoordvars>>

\* log.update_secrets(secrets): with state.lock: when state.formatter is a
\* SecretFormatter, state.formatter.update_secrets(secrets)
UpdateSecretsCall ==
    /\ c_pc = "idle"
    /\ state_lock = None
    /\ coord_calls < MaxCoordCalls
    /\ \E values \in SecretCollections :
         IF state_formatter /= 0
              /\ IsSecretFormatter(formatter_objs[state_formatter].cls)
           THEN LET f == formatter_objs[state_formatter] IN
                /\ formatter_objs' =
                      [formatter_objs EXCEPT ![state_formatter].secrets =
                          SecretsFromCollection(f.secrets, f.replacer, values)]
                /\ registered' = registered \cup
                      ({Str(v) : v \in values} \ RestrictedStopWords(f.replacer))
           ELSE UNCHANGED <<formatter_objs, registered>>
    /\ c_op' = "update_secrets"
    /\ c_pc' = "done"
    /\ c_result' = "returned"
    /\ c_before' = Snapshot
    /\ coord_calls' = coord_calls + 1
    /\ UNCHANGED <<statevars, rootvars, handler_objs, handlers_closed, c_args,
                   c_old, notcoordvars>>

\* The caller has the outcome of init / update_secrets and goes on.
CoordCallEnd ==
    /\ c_pc = "done"
    /\ c_pc' = "idle"
    /\ c_op' = None
    /\ c_args' = NoArgs
    /\ c_old' = <<>>
    /\ c_before' = NoSnapshot
    /\ c_result' = None
    /\ UNCHANGED <<statevars, rootvars, objvars, registered, coord_calls,
                   notcoordvars>>

InitCoord ==
    /\ HandlerQuiet
    /\ EmitQuiet
    /\ CoordQuiet
    /\ AuxQuiet

NextCoord ==
    \/ \E t \in CoordThreads : InitCall(t)
    \/ InitFormatter
    \/ InitFilters
    \/ InitHandlers
    \/ InitRemoveOld
    \/ InitInstall
    \/ InitFinish
    \/ UpdateSecretsCall
    \/ CoordCallEnd

SpecCoord == InitCoord /\ [][NextCoord]_vars

\* ------------------------------------------------ the secret formatter
\* Formatters and handlers are constructed, handlers are added to a logger
\* (the root logger), and SecretFormatter.update_secrets is called on the
\* formatters with every kind of source.

Replacers == {DefaultReplacer, "XXX"}     \* secrets_replacer
PyNone == [type |-> "NoneType", repr |-> "None"]

\* A source of update_secrets: None, a formatter, a handler, a logger, or a
\* collection of values.
Source(kind, obj, values) == [kind |-> kind, obj |-> obj, values |-> values]
SourceCollections ==
    { {PyStr(""), PyStr(DefaultReplacer), PyStr("s1")},
      {PyStr("XXX"), PyNone} }
Sources ==
    {Source("None", 0, {})}
      \cup {Source("formatter", g, {}) : g \in 1..Len(formatter_objs)}
      \cup {Source("handler", h, {}) : h \in 1..Len(handler_objs)}
      \cup {Source("logger", 0, {})}
      \cup {Source("collection", 0, v) : v \in SourceCollections}

\* The class and the secrets of handler.formatter (None: no formatter set)
HandlerFormatter(h) ==
    IF handler_objs[h].formatter = 0
      THEN [cls |-> None, secrets |-> {}]
      ELSE formatter_objs[handler_objs[h].formatter]

\* The secrets that `for item in logger.handlers` merges from the handlers
\* whose formatter is of the same class
LoggerSecrets ==
    UNION { HandlerFormatter(root_handlers[i]).secrets :
              i \in { j \in 1..Len(root_handlers) :
                        IsSecretFormatter(HandlerFormatter(root_handlers[j]).cls) } }

\* SecretFormatter.update_secrets(secrets): the secrets of a formatter with
\* the given own secrets and replacer after the call
UpdateSecrets(own, replacer, src) ==
    IF src.kind = "None" THEN own
    ELSE IF src.kind = "formatter"
      THEN SecretsFromFormatter(own, replacer, formatter_objs[src.obj].cls,
                                formatter_objs[src.obj].secrets)
    ELSE IF src.kind = "handler"
      THEN SecretsFromFormatter(own, replacer, HandlerFormatter(src.obj).cls,
                                HandlerFormatter(src.obj).secrets)
    ELSE IF src.kind = "logger"
      THEN CensorStopWords(own \cup LoggerSecrets, replacer)
    ELSE SecretsFromCollection(own, replacer, src.values)

\* update_secrets reaches self.__censor_stop_words() for every source but
\* None; that reads self.restricted_stop_words, which __init__ sets only
\* after its own call of update_secrets.
UpdateSecretsRaises(src, has_stop_words) ==
    src.kind /= "None" /\ ~has_stop_words

\* SecretFormatter(secrets=..., secrets_replacer=...): self.secrets = set();
\* self.update_secrets(secrets); ...; self.restricted_stop_words = {...}
NewSecretFormatter ==
    /\ Len(formatter_objs) < MaxFormatters
    /\ \E replacer \in Replacers, src \in Sources :
         /\ IF UpdateSecretsRaises(src, FALSE)
              THEN /\ c_result' = "raised"
                   /\ UNCHANGED formatter_objs
              ELSE /\ c_result' = "returned"
                   /\ formatter_objs' =
                         Append(formatter_objs,
                                [cls |-> "SecretFormatter",
                                 secrets |-> UpdateSecrets({}, replacer, src),
                                 replacer |-> replacer])
         /\ c_args' = [target |-> Len(formatter_objs'), source |-> src]
    /\ c_op' = "SecretFormatter"
    /\ UNCHANGED <<statevars, rootvars, handler_objs, handlers_closed, c_pc,
                   c_old, c_before, registered, coord_calls, notcoordvars>>

\* logging.Formatter(): a formatter of another class
NewPlainFormatter ==
    /\ Len(formatter_objs) < MaxFormatters
    /\ formatter_objs' = Append(formatter_objs,
                                [cls |-> "Formatter", secrets |-> {},
                                 replacer |-> None])
    /\ UNCHANGED <<statevars, rootvars, handler_objs, handlers_closed,
                   callvars, notcoordvars>>

\* A handler is constructed, with no formatter or with setFormatter(f)
NewHandler ==
    /\ Len(handler_objs) < MaxHandlers
    /\ \E f \in 0..Len(formatter_objs) :
         handler_objs' = Append(handler_objs,
                                [cls |-> "Handler", formatter |-> f])
    /\ UNCHANGED <<statevars, rootvars, formatter_objs, handlers_closed,
                   callvars, notcoordvars>>

\* logger.addHandler(h)
LoggerAddHandler ==
    /\ \E h \in 1..Len(handler_objs) :
         /\ h \notin Range(root_handlers)
         /\ root_handlers' = Append(root_handlers, h)
    /\ UNCHANGED <<statevars, root_level, objvars, callvars, notcoordvars>>

\* formatter.update_secrets(source) on a constructed SecretFormatter
FormatterUpdateSecrets ==
    /\ coord_calls < MaxUpdates
    /\ \E f \in 1..Len(formatter_objs), src \in Sources :
         /\ IsSecretFormatter(formatter_objs[f].cls)
         /\ ~UpdateSecretsRaises(src, TRUE)
         /\ formatter_objs' =
               [formatter_objs EXCEPT ![f].secrets =
                   UpdateSecrets(@, formatter_objs[f].replacer, src)]
         /\ c_args' = [target |-> f, source |-> src]
    /\ c_op' = "update_secrets"
    /\ c_result' = "returned"
    /\ coord_calls' = coord_calls + 1
    /\ UNCHANGED <<statevars, rootvars, handler_objs, handlers_closed, c_pc,
                   c_old, c_before, registered, notcoordvars>>

NextSecrets ==
    \/ NewSecretFormatter
    \/ NewPlainFormatter
    \/ NewHandler
    \/ LoggerAddHandler
    \/ FormatterUpdateSecrets

SpecSecrets == InitCoord /\ [][NextSecrets]_vars

\* ------------------------------------- PeriodicFlush over several handlers
\* run: `for handler in self.handlers: try: handler.flush() except: pass`:
\* the position of the next handler after the flush of handler i of n
\* returned or raised; n + 1 ends the for loop.
NextHandlerTryAroundLoop(i, n, raised) == IF raised THEN n + 1 ELSE i + 1
NextHandler(i, n, raised) == i + 1

\* run: time.sleep(self.interval) ends and the for loop begins
FlusherWake ==
    /\ run_pc = "sleep"
    /\ run_ticks < MaxFlusherTicks
    /\ run_ticks' = run_ticks + 1
    /\ run_index' = 1
    /\ run_pc' = "loop"
    /\ UNCHANGED <<handlers, flush_calls>>
    /\ UNCHANGED notflushervars

\* run: one turn of the for loop: handler.flush() returns or raises, the
\* bare except clause swallows what it raises; after the last turn the
\* while loop goes back to sleep.
FlusherFlush ==
    /\ run_pc = "loop"
    /\ \E raised \in BOOLEAN :
         /\ flush_calls' = Append(flush_calls, [tick |-> run_ticks,
                                                handler |-> run_index,
                                                raised |-> raised])
         /\ run_index' = NextHandler(run_index, handlers, raised)
    /\ run_pc' = IF run_index' > handlers THEN "sleep" ELSE "loop"
    /\ UNCHANGED <<handlers, run_ticks>>
    /\ UNCHANGED notflushervars

InitFlusher ==
    /\ HandlerQuiet
    /\ EmitQuiet
    /\ CoordQuiet
    /\ EventNodeQuiet
    /\ FormatQuiet
    /\ FilterQuiet
    /\ \E n \in 1..MaxFlushHandlers : FlusherInit(n)

NextFlusher ==
    \/ FlusherWake
    \/ FlusherFlush

SpecFlusher == InitFlusher /\ [][NextFlusher]_vars

\* ------------------------------------------- SecretFormatter.replacer_re
\* A text is the sequence of its characters.  "a" and "b" stand for the
\* characters that \w matches, "-" for the others (space, punctuation).
WordChars == {"a", "b"}
Chars == WordChars \cup {"-"}
Texts == UNION {[1..n -> Chars] : n \in 0..MaxText}
SecretStrings == UNION {[1..n -> Chars] : n \in 1..MaxSecretLen}

\* The orders in which a set of at most MaxSecrets secrets can be iterated
SecretOrders ==
    {o \in UNION {[1..n -> SecretStrings] : n \in 0..MaxSecrets} :
        \A i, j \in 1..Len(o) : i /= j => o[i] /= o[j]}

\* self.replacer, the default "***"
ReplacerText == <<"*", "*", "*">>

\* \b before position p of text (p = Len(text) + 1: at its end): exactly one
\* of the characters on its two sides is a word character.
IsWordChar(c) == c \in WordChars
WordBoundary(text, p) ==
    (p > 1 /\ IsWordChar(text[p - 1])) /= (p <= Len(text) /\ IsWordChar(text[p]))

\* re.escape(s) matches s literally at position p
LiteralAt(text, p, s) ==
    /\ p + Len(s) - 1 <= Len(text)
    /\ SubSeq(text, p, p + Len(s) - 1) = s

\* re_pattern, \b(?:s1|s2|...)\b, tried at position p: the alternatives are
\* tried in order, and one that matches literally but is not followed by \b
\* is given up for the next.  The length of the match, 0 for none.
PatternAt(text, p, order) ==
    LET ok == {i \in 1..Len(order) :
                  /\ LiteralAt(text, p, order[i])
                  /\ WordBoundary(text, p)
                  /\ WordBoundary(text, p + Len(order[i]))}
    IN  IF ok = {} THEN 0
        ELSE Len(order[CHOOSE i \in ok : \A j \in ok : i <= j])

\* re.sub: the matches found scanning text from position p, leftmost first,
\* each search starting where the match before it ended
RECURSIVE Matches(_, _, _)
Matches(text, p, order) ==
    IF p > Len(text) THEN <<>>
    ELSE LET k == PatternAt(text, p, order)
         IN  IF k > 0
               THEN <<[start |-> p, len |-> k]>> \o Matches(text, p + k, order)
               ELSE Matches(text, p + 1, order)

\* re.sub(self.re_pattern, self.replacer, text): each match gives way to the
\* replacer, the rest of the text is copied
RECURSIVE ReSub(_, _, _)
ReSub(text, p, ms) ==
    IF p > Len(text) THEN <<>>
    ELSE IF ms /= <<>> /\ Head(ms).start = p
      THEN ReplacerText \o ReSub(text, p + Head(ms).len, Tail(ms))
      ELSE <<text[p]>> \o ReSub(text, p + 1, ms)

replacer_re(text, order) == ReSub(text, 1, Matches(text, 1, order))

\* format: formatted = super().format(record); if not self.secrets: return
\* formatted; return self.formatter(formatted), the formatter being
\* replacer_re
Format ==
    /\ ~fmt_done
    /\ fmt_out' = IF fmt_secrets = <<>> THEN fmt_text
                  ELSE replacer_re(fmt_text, fmt_secrets)
    /\ fmt_done' = TRUE
    /\ UNCHANGED <<fmt_secrets, fmt_text>>
    /\ UNCHANGED notformatvars

InitFormat ==
    /\ HandlerQuiet
    /\ EmitQuiet
    /\ CoordQuiet
    /\ EventNodeQuiet
    /\ FlusherQuiet
    /\ FilterQuiet
    /\ \E order \in SecretOrders, text \in Texts : FormatInit(order, text)

SpecFormat == InitFormat /\ [][Format]_vars

\* ------------------------------------------- Base64SanitizationFilter
\* record.levelno: a custom TRACE level, DEBUG, INFO
LevelNos == {5, 10, 20}

\* The base64 characters of a payload, those before its "=" characters
BodyLen(payload) == Cardinality({i \in 1..Len(payload) : payload[i] /= 0})

\* base64_pattern, data:image/[^;]+;base64,[A-Za-z0-9+/]{20,}[=]*, matches
\* the data URI of the message: at least twenty base64 characters follow
\* ";base64,"
PatternMatches(message) == BodyLen(message.payload) >= MinBase64Run

\* _sanitize_base64_url(url) on the matched URL: base64_data is what
\* follows ";base64,", "=" characters included
sanitize_base64_url(message, max_chars) ==
    IF Len(message.payload) > max_chars
      THEN Message(SubSeq(message.payload, 1, max_chars), TRUE)
      ELSE message

\* filter(record): below DEBUG nothing is done; else every match of the
\* pattern in record.msg is replaced by its sanitized form
Filter ==
    /\ ~filter_done
    /\ msg_out' = IF levelno < Debug THEN msg
                  ELSE IF PatternMatches(msg)
                    THEN sanitize_base64_url(msg, max_base64_chars)
                  ELSE msg
    /\ filter_done' = TRUE
    /\ UNCHANGED <<max_base64_chars, levelno, msg>>
    /\ UNCHANGED notfiltervars

InitFilter ==
    /\ HandlerQuiet
    /\ EmitQuiet
    /\ CoordQuiet
    /\ EventNodeQuiet
    /\ FlusherQuiet
    /\ FormatQuiet
    /\ \E max_chars \in 0..(MaxBody + MaxPad), level \in LevelNos,
          body \in 0..MaxBody, pad \in 0..MaxPad :
         FilterInit(max_chars, level, Message(Payload64(body, pad), FALSE))

SpecFilter == InitFilter /\ [][Filter]_vars

\* ----------------------------------------------------------------- claims
FlushPcs == {"f_loop", "f_tx", "f_stamp", "f_ret"}

\* Position of batch b in the drain order (0 when it was not drained).
DrainIndex(b) ==
    IF \E i \in 1..Len(drained) : drained[i] = b
      THEN CHOOSE i \in 1..Len(drained) : drained[i] = b
      ELSE 0

\* Records of one thread stand in s in the order in which it logged them.
ThreadOrdered(s) ==
    \A i, j \in 1..Len(s) :
        (i < j /\ s[i].th = s[j].th) => s[i].n < s[j].n

\* C1: the buffer never holds more than `capacity` records, and it holds
\* `capacity` records only while the thread whose enqueue filled it is inside
\* the drain loop with the handler lock: no enqueue can append onto a buffer
\* that is already full.
C1_BufferWithinCapacity ==
    /\ Len(buffer) <= capacity
    /\ Len(buffer) = capacity =>
          \E t \in Threads :
              pc[t] = "f_loop" /\ ret[t] = "handle" /\ lock_owner = t

\* C1 witness: an enqueue brought a buffer of capacity 2 to its capacity
\* and is about to drain it.
C1_Witness ==
    \E t \in Threads :
        /\ pc[t] = "f_loop" /\ ret[t] = "handle"
        /\ capacity >= 2 /\ Len(buffer) = capacity /\ log_records[t] = <<>>

\* C2 (as claimed): in the capacity scenario no flush starts before the
\* capacity-th enqueue, the first batch handed to the emitter is the first
\* `capacity` records in enqueue order, and once exactly `capacity` records
\* are logged and every thread is back, the emitter has received one batch.
C2_FirstFlushOnNthEnqueue ==
    /\ ((\E t \in Threads : pc[t] \in FlushPcs) \/ emitted /= <<>>
            \/ last_flush /= 0)
          => Len(enq_log) >= capacity
    /\ emitted /= <<>>
          => /\ Len(enq_log) >= capacity
             /\ emitted[1] = SubSeq(enq_log, 1, capacity)
    /\ (Len(enq_log) = capacity /\ \A t \in Threads : pc[t] = "idle")
          => Len(emitted) = 1

\* C3: when a flush that drained records returns after emit_batch raised,
\* none of the drained records is in the buffer and last_flush is not older
\* than the start of this flush, in locked and in unlocked mode.
C3_FailedFlushDropsAndStamps ==
    \A t \in Threads :
        (pc[t] = "f_ret" /\ tx_failed[t]) =>
            /\ log_records[t] /= <<>>
            /\ Range(log_records[t]) \cap Range(buffer) = {}
            /\ last_flush >= fstart[t]
            /\ fstart[t] >= StartTime

\* C3 witness: an unlocked-mode flush is returning after its transmission
\* failed, having drained two records.
C3_Witness ==
    \E t \in Threads :
        /\ pc[t] = "f_ret" /\ tx_failed[t] /\ ~flush_locked
        /\ Len(log_records[t]) >= 2

\* C4: every record is in at most one batch handed to emit_batch, and at
\* most once in it.
C4_AtMostOnce ==
    \A i, j \in 1..Len(emitted) :
        \A p \in 1..Len(emitted[i]) : \A q \in 1..Len(emitted[j]) :
            emitted[i][p] = emitted[j][q] => (i = j /\ p = q)

\* C4 witness: two batches were handed to the emitter, a transmission
\* failed, and the flush is returning with the buffer empty.
C4_Witness ==
    /\ Len(emitted) >= 2
    /\ buffer = <<>>
    /\ \E t \in Threads : pc[t] = "f_ret" /\ tx_failed[t] /\ flush_locked

\* C5 (as claimed): when a flush returns, the records that were in the
\* buffer when it took the lock are either all gone from the buffer or all
\* still in it.
C5_AtomicDrain ==
    \A t \in Threads :
        pc[t] = "f_ret" =>
            \/ Range(snap[t]) \cap Range(buffer) = {}
            \/ Range(snap[t]) \subseteq Range(buffer)

\* C6 (as claimed): when a flush in which formatting one record raised
\* returns, every other record that was in the buffer at that flush is in
\* the batch that this flush handed to the emitter.
C6_FormatFaultIsolated ==
    \A t \in Threads :
        (pc[t] = "f_ret" /\ faulty[t] /= NoRecord) =>
            \A r \in Range(snap[t]) \ {faulty[t]} :
                /\ r \in Range(log_records[t])
                /\ \E i \in 1..Len(emitted) : emitted[i] = log_records[t]

\* C7: at most one thread is inside the drain loop of the handler, it holds
\* the handler lock, and no record is appended to the buffer while a thread
\* is inside the loop.
C7_DrainsExclusive ==
    /\ [](/\ Cardinality({t \in Threads : pc[t] = "f_loop"}) <= 1
          /\ \A t \in Threads : pc[t] = "f_loop" => lock_owner = t)
    /\ [][(\E t \in Threads : pc[t] = "f_loop") => enq_log' = enq_log]_vars

\* C7 witness: an application thread is in the middle of the drain loop
\* (one record popped, one still buffered) while the periodic flusher is in
\* a flush of its own, past its drain.
C7_Witness ==
    /\ \E t \in AppThreads :
          pc[t] = "f_loop" /\ log_records[t] /= <<>> /\ buffer /= <<>>
    /\ pc[Flusher] \in {"f_tx", "f_stamp"}

C9_LockedTransmission ==
    /\ [](flush_locked =>
            /\ Cardinality({t \in Threads : pc[t] = "f_tx"}) <= 1
            /\ \A t \in Threads : pc[t] = "f_tx" => lock_owner = t
            /\ \A i, j \in 1..Len(emitted) :
                 i < j => /\ DrainIndex(emitted[i]) > 0
                          /\ DrainIndex(emitted[i]) < DrainIndex(emitted[j]))
    /\ [][(flush_locked /\ \E t \in Threads : pc[t] = "f_tx")
            => enq_log' = enq_log]_vars

\* C9 witness: in locked mode the second batch is being transmitted by the
\* periodic flusher.
C9_Witness ==
    /\ flush_locked
    /\ pc[Flusher] = "f_tx"
    /\ Len(emitted) >= 2

\* C10 (as claimed): in unlocked mode the thread that is inside emit_batch
\* does not hold the handler lock, whoever started the flush.
C10_UnlockedSendHoldsNoLock ==
    \A t \in Threads :
        (~flush_locked /\ pc[t] = "f_tx") => lock_owner /= t

C12_ExhaustionAfterRAttempts ==
    /\ [](h_posts <= retries)
    /\ []((h_pc /= "idle" /\ h_sink.fails >= retries) =>
            /\ h_result /= "returned"
            /\ h_pc = "done" => (h_result = "raised" /\ h_posts = retries))
    /\ (h_pc = "loop") ~> (h_pc = "done")

\* C12 witness: budget 2, the sink failed both POSTs, the call has raised.
C12_Witness ==
    /\ h_pc = "done" /\ h_result = "raised"
    /\ retries = 2 /\ h_sink.fails >= 2 /\ h_posts = 2

\* C13 (as claimed): no emit call changes an emitter's default label map:
\* default_labels of either emitter is always the map it was constructed
\* with.
C13_DefaultLabelsUnchanged ==
    /\ loki_default_labels = loki_ctor_labels
    /\ en_default_labels = en_ctor_labels

\* C14 (as claimed): in the payload of a pub/sub batch, the labels of each
\* record are the handler defaults overridden by that record's own labels.
C14_BatchRecordLabels ==
    (e_pc = "done" /\ e_kind = "emit_batch") =>
        \A i \in 1..Len(e_input) :
            client_calls[1].records[i].labels
                = DictUpdate(en_ctor_labels, e_input[i].labels)

\* C15: a call of the pub/sub emitter's emit or emit_batch calls the
\* client's emit never more than once and, when it ends, exactly once, with
\* event type "log_data" and one {line, time, labels} entry per input
\* record, in input order; also when the client raised, in which case the
\* call ends as raised.
C15_OneClientCall ==
    /\ Len(client_calls) <= 1
    /\ e_pc = "done" =>
          /\ Len(client_calls) = 1
          /\ e_result \in {"returned", "raised"}
          /\ client_calls[1].event = "log_data"
          /\ Len(client_calls[1].records) = Len(e_input)
          /\ \A i \in 1..Len(e_input) :
                /\ DOMAIN client_calls[1].records[i] = {"line", "time", "labels"}
                /\ client_calls[1].records[i].line = e_input[i].line
                /\ client_calls[1].records[i].time = e_input[i].time

\* C15 witness: emit_batch was given two records, the client raised, the
\* call has ended.
C15_Witness ==
    /\ e_pc = "done" /\ e_kind = "emit_batch"
    /\ Len(e_input) = 2 /\ e_result = "raised"

\* A call of init that did not take the early return.
Reinitializes == ~(c_before.initialized /\ ~c_args.force)

\* Some handler of the new set is installed on the root logger.
NewInstalled ==
    \E i \in 1..Len(state_handlers) : state_handlers[i] \in Range(root_handlers)

\* C16: when a call init(force=False) made on initialized coordination
\* state has ended, it has returned, and state.formatter, state.filters,
\* state.handlers, state.root_level, the initialized flag and the root
\* logger's handlers are what they were when it began; no handler was
\* closed and no formatter or handler was constructed.
C16_InitIdempotent ==
    (c_pc = "done" /\ c_op = "init" /\ c_before.initialized /\ ~c_args.force)
        => /\ c_result = "returned"
           /\ Snapshot = c_before
           /\ state_initialized

\* C16 witness: init(force=False) with a level other than the current
\* root level and a config whose formatter cannot be resolved has ended on
\* initialized state.
C16_Witness ==
    /\ c_pc = "done" /\ c_op = "init"
    /\ c_before.initialized /\ ~c_args.force
    /\ c_args.config.formatter = "bad"
    /\ c_args.level /= state_root_level

\* C17 (as claimed): between calls, every secret that update_secrets gave
\* to a secret formatter (all formatters of the run being secret
\* formatters) is in the secret set of the active formatter.
C17_SecretsSurvive ==
    ( /\ c_pc \in {"idle", "done"}
      /\ state_formatter /= 0
      /\ \A i \in 1..Len(formatter_objs) :
            IsSecretFormatter(formatter_objs[i].cls) )
        => registered \subseteq formatter_objs[state_formatter].secrets

\* C18: while init reinitializes, a handler of the new set is on the root
\* logger only when every handler that was installed before is off the root
\* logger and closed; and when that init has returned, the root logger's
\* handlers are state.handlers, in the same order.
C18_OldClosedBeforeNewInstalled ==
    /\ (c_op = "init" /\ Reinitializes /\ NewInstalled)
          => \A h \in Range(c_before.root) :
                 h \notin Range(root_handlers) /\ h \in handlers_closed
    /\ (c_op = "init" /\ Reinitializes /\ c_pc = "done"
            /\ c_result = "returned")
          => root_handlers = state_handlers

\* C18 witness: a reinitialization that found handlers installed has put
\* the first handler of its new set on the root logger and has more to
\* install.
C18_Witness ==
    /\ c_op = "init" /\ c_pc = "install"
    /\ c_before.root /= <<>>
    /\ NewInstalled

\* C19 (as claimed): when init has raised, state.formatter, state.filters,
\* state.handlers, state.root_level, the initialized flag and the root
\* logger's handlers are what they were when the call began.
C19_InitAllOrNothing ==
    (c_pc = "done" /\ c_op = "init" /\ c_result = "raised")
        => /\ state_formatter = c_before.formatter
           /\ state_filters = c_before.filters
           /\ state_handlers = c_before.handlers
           /\ state_root_level = c_before.root_level
           /\ state_initialized = c_before.initialized
           /\ root_handlers = c_before.root

\* C20: the secret set of every constructed secret formatter contains
\* neither the empty string nor that formatter's replacement token, after
\* construction and after every update_secrets call, whatever its source.
C20_NoStopWordsInSecrets ==
    \A f \in 1..Len(formatter_objs) :
        IsSecretFormatter(formatter_objs[f].cls) =>
            /\ "" \notin formatter_objs[f].secrets
            /\ formatter_objs[f].replacer \notin formatter_objs[f].secrets

\* C20 witness: update_secrets was called on a formatter with, as its
\* source, another formatter whose secrets hold the first one's replacement
\* token, and the first one has secrets.
C20_Witness ==
    /\ c_op = "update_secrets"
    /\ c_args.source.kind = "formatter"
    /\ formatter_objs[c_args.target].replacer
          \in formatter_objs[c_args.source.obj].secrets
    /\ formatter_objs[c_args.target].secrets /= {}


\* C22: closing is terminal.  Once close() has returned on a buffered
\* handler, no later enqueue adds a record to its buffer, and no later run
\* of the periodic flusher starts draining records out of it.
C22_ClosingIsTerminal ==
    [][closed =>
         /\ enq_log' = enq_log
         /\ ~(pc[Flusher] = "idle" /\ pc'[Flusher] = "f_loop")]_vars


\* flush: the number of "[FATAL] ..." lines the except clauses of thread
\* t's flush have printed: the first except clause is entered by a formatting
\* failure (a locked transmission failure is counted with the second, the
\* two cannot both happen in locked mode), the second by a transmission
\* failure.
Diagnostics(t) ==
    (IF faulty[t] /= NoRecord THEN 1 ELSE 0) + (IF tx_failed[t] THEN 1 ELSE 0)

\* C25: a flush ends by returning, and when it returns it has written exactly
\* one diagnostic if a formatting or a transmission failure occurred in it
\* (also when both occurred), and none if no failure occurred.
C25_OneDiagnosticPerFailedFlush ==
    \A t \in Threads :
        pc[t] = "f_ret" =>
            Diagnostics(t) =
                IF faulty[t] /= NoRecord \/ tx_failed[t] THEN 1 ELSE 0


\* C21: when close() is called on the EventNode handler with records in its
\* buffer, the final flush hands them to the pub/sub client before the
\* client's stop(): a record that was enqueued before close() is never in a
\* batch that the closing flush gives to the emitter of a stopped client.
C21_FinalFlushBeforeStop ==
    \A t \in Threads :
        (ret[t] = "close" /\ pc[t] = "f_tx") =>
            \A i \in 1..Len(enq_log) :
                enq_log[i] \in Range(log_records[t]) => i > event_node_stop


\* C24: every enqueued record is eventually removed from the buffer by a
\* flush, also when no further record is enqueued and the buffer never
\* reaches its capacity, as long as the periodic flusher keeps running and
\* every transmission terminates.  (Records leave the buffer in the order
\* they entered it: the k-th enqueued record is out of the buffer once k
\* records have left it.)
C24_NoStaleRecord ==
    \A k \in 1..MaxRecords :
        (Len(enq_log) >= k) ~> (Len(enq_log) - Len(buffer) >= k)

\* A record waits in a buffer below its capacity while no thread is inside
\* the handler: only the periodic flusher is left to send it.
C24_Witness ==
    /\ Len(buffer) = 1
    /\ capacity > 1
    /\ \A t \in Threads : pc[t] = "idle"
    /\ TotalMade = MaxRecords


\* C23: on every tick the periodic flusher calls flush() on every registered
\* handler, whether or not an earlier handler's flush raised: the calls made
\* so far are those of the ticks so far, each tick going through the handlers
\* in list order without a gap, and the thread is asleep or in its loop,
\* never ended.
C23_FlusherIsolation ==
    /\ run_pc \in {"sleep", "loop"}
    /\ Len(flush_calls) =
         IF run_pc = "sleep" THEN run_ticks * handlers
         ELSE (run_ticks - 1) * handlers + run_index - 1
    /\ \A j \in 1..Len(flush_calls) :
         /\ flush_calls[j].tick = ((j - 1) \div handlers) + 1
         /\ flush_calls[j].handler = ((j - 1) % handlers) + 1

\* The first handler's flush raised in the first tick; the flusher went on
\* to a later tick and finished it.
C23_Witness ==
    /\ handlers >= 2
    /\ run_pc = "sleep"
    /\ run_ticks >= 2
    /\ flush_calls[1].raised
    /\ Len(flush_calls) = run_ticks * handlers


\* C28: the HTTP connection of the Loki emitter.  After a failed attempt the
\* connection is gone before the retry delay begins (also when closing it
\* raised) and the next attempt makes a new one; an attempt that finds a
\* connection held, as a successful send leaves it, uses that one; a send
\* that returned leaves the connection held, and one that raised its
\* terminal error leaves none.
C28_ConnectionLifecycle ==
    [][/\ h_pc' = "sleep" => connection' = None
       /\ (h_posts >= 1 /\ h_posts' = h_posts + 1) => h_connect' = "new"
       /\ (connection /= None /\ h_posts' = h_posts + 1) =>
              h_connect' = "reused"
       /\ (connection = None /\ h_posts' = h_posts + 1) => h_connect' = "new"
       /\ (h_pc' = "done" /\ h_result' = "returned") => connection' /= None
       /\ (h_pc' = "done" /\ h_result' = "raised") => connection' = None
       /\ (h_pc = "done" /\ h_pc' = "idle") => connection' = connection
      ]_vars

\* In a later call the connection that the call before it left was used
\* again, the POST on it failed and it is torn down.
C28_Witness ==
    /\ em_calls >= 2
    /\ h_pc = "sleep"
    /\ h_posts = 1
    /\ h_connect = "reused"
    /\ connection = None


\* C29: SecretFormatter(secrets=c) with a non-empty collection c returns, and
\* the secrets of the formatter it made are the values of c as strings,
\* without the empty string and the replacement token.
C29_ConstructorWithSecrets ==
    (/\ c_op = "SecretFormatter"
     /\ c_args.source.kind = "collection"
     /\ c_args.source.values /= {}) =>
        /\ c_result = "returned"
        /\ c_args.target = Len(formatter_objs)
        /\ c_args.target >= 1
        /\ LET f == formatter_objs[c_args.target]
           IN  f.secrets =
                 {Str(v) : v \in c_args.source.values} \ {"", f.replacer}


\* s occurs in text at position p as a whole word: no word character is next
\* to it on either side.
WholeWordAt(text, p, s) ==
    /\ LiteralAt(text, p, s)
    /\ ~(p > 1 /\ IsWordChar(text[p - 1]))
    /\ ~(p + Len(s) <= Len(text) /\ IsWordChar(text[p + Len(s)]))

\* The positions of text that re.sub replaced
Replaced(text, order) ==
    UNION { ms.start..(ms.start + ms.len - 1) :
              ms \in Range(Matches(text, 1, order)) }

\* C26: with a non-empty secret set, format's output is the text with every
\* whole-word occurrence of every secret replaced (none of its characters is
\* copied to the output), whatever the other secrets are, and with nothing
\* else replaced: what is replaced is a whole-word occurrence of a secret.
C26_WholeWordRedaction ==
    (fmt_done /\ fmt_secrets /= <<>>) =>
        /\ fmt_out = ReSub(fmt_text, 1, Matches(fmt_text, 1, fmt_secrets))
        /\ \A s \in Range(fmt_secrets), p \in 1..Len(fmt_text) :
             WholeWordAt(fmt_text, p, s) =>
                (p..(p + Len(s) - 1)) \subseteq Replaced(fmt_text, fmt_secrets)
        /\ \A ms \in Range(Matches(fmt_text, 1, fmt_secrets)) :
             \E s \in Range(fmt_secrets) :
                /\ Len(s) = ms.len
                /\ WholeWordAt(fmt_text, ms.start, s)


\* C27: the filter leaves a record below the minimum severity as it is; in a
\* record at or above it, a data URI's payload longer than max_chars becomes
\* its first max_chars characters followed by the marker, and a payload of
\* at most max_chars characters stays as it is.
C27_Base64Truncation ==
    filter_done =>
        IF levelno < Debug THEN msg_out = msg
        ELSE IF Len(msg.payload) > max_base64_chars
          THEN msg_out = Message(SubSeq(msg.payload, 1, max_base64_chars), TRUE)
        ELSE msg_out = msg

====
